---- MODULE Spec2Model ----
(***************************************************************************)
(* Model of extensions/sse/client.go (package sse): the Clients registry,  *)
(* its listener goroutine and the caller side of New, Remove, Active,      *)
(* Clients and Client.                                                     *)
(*                                                                         *)
(* A *Client pointer is modelled as a record [ID, ptr]; ptr is the         *)
(* allocation number of the record (0 is the nil pointer).  A private      *)
(* response channel (rch) is identified with the caller that made it.      *)
(***************************************************************************)
EXTENDS Naturals, Integers, Sequences, FiniteSets, TLC

\* ---- bounds of the model ----
NumCallers == 2
MaxCalls == 3

\* ---- program constants ----
buffer == 10

eTypeNewClient == 0
eTypeClientList == 1
eTypeRemoveClient == 2
eTypeActiveClientCount == 3
eTypeClient == 4

\* ---- universe of inputs ----
IDs == {"a", "b"}
Callers == 1..NumCallers
NoChan == 0

VARIABLES
  clients,    \* cs.clients: map from id to *Client
  events,     \* the events channel (buffered, FIFO)
  lpc,        \* listener position: "recv", "handle", "send"
  cur,        \* ev, the event the listener holds
  resp,       \* the response the listener is sending on ev.Response
  pc,         \* position of each caller goroutine
  arg,        \* clientID argument of the call in progress
  mine,       \* cli allocated by the New in progress
  ret,        \* what the caller's last call returned (cleared when its next call starts)
  ncalls,     \* number of calls started so far, by all callers
  nextPtr,    \* next allocation number for a *Client
  cancelled,  \* ptrs of the records whose Ctx is cancelled
  want,       \* history: ids left by replaying, in arrival order, every insert/remove request sent so far
  wantDone,   \* history: the replay over the requests the listener has fully processed
  served,     \* history: the map as it was when the listener took the caller's request
  ins,        \* history: map size before and after the insert of the caller's last New
  seen,       \* history: map sizes since the caller's New submitted its request
  act,        \* history: the caller's last Active() result, while quiescence has lasted
  nsent,      \* history: number of requests that have entered events
  lastDone,   \* history: arrival number of the last request the listener has finished
  prev,       \* history: the caller's previous Remove, while it calls Remove(id) twice in a row
  msgs,       \* per record ptr, the number of messages pending in its Msg channel
  rng         \* Range in progress: response.Clients, the loop index i, the records f was called with

vars == <<clients, events, lpc, cur, resp, pc, arg, mine, ret, ncalls, nextPtr,
          cancelled, want, wantDone, served, ins, seen, act, nsent, lastDone,
          prev, msgs, rng>>

\* ---- values ----
NilClient == [ID |-> "", ptr |-> 0]

Client(id, p) == [ID |-> id, ptr |-> p]

EmptyMap == [k \in {} |-> NilClient]

\* replay: the ids the replay of the requests up to this one leaves (history);
\* seq: the arrival number of the request (history)
event(t, id, cli, rch, rp, sq) ==
  [Type |-> t, ClientID |-> id, Client |-> cli, Response |-> rch, replay |-> rp,
   seq |-> sq]

NoEvent == event(eTypeActiveClientCount, "", NilClient, NoChan, {}, 0)

\* isNil: the listener sent a nil *eventResponse
eventResponse(nil, list, cli) ==
  [isNil |-> nil, Clients |-> list, RemainingClients |-> 0, Client |-> cli]

NoResponse == eventResponse(TRUE, <<>>, NilClient)

Returned(op, id, n, list, cli, rp) ==
  [op |-> op, id |-> id, n |-> n, Clients |-> list, Client |-> cli, replay |-> rp]

NoRet == Returned("none", "", 0, <<>>, NilClient, {})

NoIns == [ptr |-> 0, done |-> FALSE, before |-> 0, after |-> 0]

NoAct == [n |-> 0, quiet |-> FALSE]

NoPrev == [id |-> "", n |-> 0, clean |-> FALSE, twice |-> FALSE]

NoRng == [snap |-> <<>>, i |-> 0, visited |-> <<>>]

NoMsgs == [p \in {} |-> 0]

\* ---- the map operations the code uses ----
MapLenBug(m) == Cardinality(DOMAIN m) + 1

MapLen(m) == Cardinality(DOMAIN m)

MapGet(m, id) == IF id \in DOMAIN m THEN m[id] ELSE NilClient

MapSetKeepOld(m, cli) ==
  [k \in DOMAIN m \cup {cli.ID} |-> IF k \in DOMAIN m THEN m[k] ELSE cli]

MapSet(m, cli) ==
  [k \in DOMAIN m \cup {cli.ID} |-> IF k = cli.ID THEN cli ELSE m[k]]

MapDeleteBug(m, id) == m

MapDelete(m, id) == [k \in DOMAIN m \ {id} |-> m[k]]

\* the orders in which `for clientID := range cs.clients` may visit the keys
RangeOrders(m) ==
  {o \in [1..Cardinality(DOMAIN m) -> DOMAIN m] :
     \A i, j \in 1..Cardinality(DOMAIN m) : o[i] = o[j] => i = j}

RECURSIVE CopyLoopBug(_, _, _)
CopyLoopBug(m, order, copied) ==
  IF order = <<>> THEN copied
  ELSE CopyLoopBug(m, Tail(order), <<m[Head(order)]>>)

\* copied := make(...); for clientID := range ... { copied = append(copied, cs.clients[clientID]) }
RECURSIVE CopyLoop(_, _, _)
CopyLoop(m, order, copied) ==
  IF order = <<>> THEN copied
  ELSE CopyLoop(m, Tail(order), Append(copied, m[Head(order)]))

\* cli.Ctx.Done() returns the context's done channel; it cancels nothing
CtxDone(done, cli) == done

\* ---- the channel operations ----
CanSendBug(q) == TRUE

\* cs.events has capacity buffer: a send does not block while it holds fewer
CanSend(q) == Len(q) < buffer

ChanSendBug(q, ev) == <<ev>> \o q

ChanSend(q, ev) == Append(q, ev)

ChanRecvValueBug(q) == q[Len(q)]

ChanRecvValue(q) == Head(q)

ChanRecvRest(q) == Tail(q)

\* ---- history ----
ReplayInsert(S, id) == S \cup {id}

ReplayRemove(S, id) == S \ {id}

\* the listener holds a request whose handling writes the map
ListenerWrites ==
  /\ lpc = "handle"
  /\ \/ cur.Type = eTypeNewClient
     \/ cur.Type = eTypeRemoveClient /\ cur.ClientID \in DOMAIN clients

\* no New or Remove call in progress and the request queue empty
Quiescent ==
  /\ events = <<>>
  /\ \A c \in Callers : pc[c] \notin {"NewLen", "RemoveSent", "RemoveWait", "RemoveLen"}

Init ==
  /\ clients = EmptyMap
  /\ events = <<>>
  /\ lpc = "recv"
  /\ cur = NoEvent
  /\ resp = NoResponse
  /\ pc = [c \in Callers |-> "idle"]
  /\ arg = [c \in Callers |-> ""]
  /\ mine = [c \in Callers |-> NilClient]
  /\ ret = [c \in Callers |-> NoRet]
  /\ ncalls = 0
  /\ nextPtr = 1
  /\ cancelled = {}
  /\ want = {}
  /\ wantDone = {}
  /\ served = [c \in Callers |-> EmptyMap]
  /\ ins = [c \in Callers |-> NoIns]
  /\ seen = [c \in Callers |-> {}]
  /\ act = [c \in Callers |-> NoAct]
  /\ nsent = 0
  /\ lastDone = 0
  /\ prev = [c \in Callers |-> NoPrev]
  /\ msgs = NoMsgs
  /\ rng = [c \in Callers |-> NoRng]

\* ---- the listener goroutine ----

\* for ev := range events
ListenerRecv ==
  /\ lpc = "recv"
  /\ events # <<>>
  /\ cur' = ChanRecvValue(events)
  /\ events' = ChanRecvRest(events)
  /\ lpc' = "handle"
  /\ IF cur'.Response # NoChan
       THEN served' = [served EXCEPT ![cur'.Response] = clients]
       ELSE served' = served
  /\ UNCHANGED <<clients, resp, pc, arg, mine, ret, ncalls, nextPtr, cancelled,
                 want, wantDone, ins, seen, act,
                 nsent, lastDone, prev, msgs, rng>>

HandleMapListDrains(m, ev) ==
  IF ev.Type = eTypeNewClient THEN MapSet(m, ev.Client)
  ELSE IF ev.Type = eTypeRemoveClient /\ MapGet(m, ev.ClientID) # NilClient
    THEN MapDelete(m, ev.ClientID)
  ELSE IF ev.Type = eTypeClientList THEN EmptyMap
  ELSE m

\* the map after `switch ev.Type` has run for ev
HandleMap(m, ev) ==
  IF ev.Type = eTypeNewClient THEN MapSet(m, ev.Client)
  ELSE IF ev.Type = eTypeRemoveClient /\ MapGet(m, ev.ClientID) # NilClient
    THEN MapDelete(m, ev.ClientID)
  ELSE m

\* the cancelled contexts after `switch ev.Type` has run for ev
HandleCtx(done, m, ev) ==
  IF ev.Type = eTypeRemoveClient /\ MapGet(m, ev.ClientID) # NilClient
    THEN CtxDone(done, MapGet(m, ev.ClientID))
    ELSE done

\* what the listener sends on ev.Response, the keys visited in `order`
HandleResponse(m, ev, order) ==
  IF ev.Type = eTypeClientList
    THEN eventResponse(FALSE, CopyLoop(m, order, <<>>), NilClient)
  ELSE IF ev.Type = eTypeClient
    THEN eventResponse(FALSE, <<>>, MapGet(m, ev.ClientID))
  ELSE eventResponse(TRUE, <<>>, NilClient)

AfterHandleNoAck(m, ev) ==
  IF ev.Type = eTypeNewClient THEN "recv"
  ELSE IF ev.Type = eTypeRemoveClient /\ MapGet(m, ev.ClientID) = NilClient THEN "recv"
  ELSE "send"

AfterHandleAckAll(m, ev) == "send"

\* where the listener goes after the body of the switch: a new-client request
\* has no reply, so its iteration ends; every other case sends on ev.Response
\* (the remove case on both of its paths)
AfterHandle(m, ev) == IF ev.Type = eTypeNewClient THEN "recv" ELSE "send"

\* the body of the switch, up to the send on ev.Response
ListenerHandle ==
  /\ lpc = "handle"
  /\ clients' = HandleMap(clients, cur)
  /\ cancelled' = HandleCtx(cancelled, clients, cur)
  /\ IF cur.Type = eTypeClientList
       THEN \E order \in RangeOrders(clients) :
              resp' = HandleResponse(clients, cur, order)
       ELSE resp' = IF cur.Type = eTypeNewClient THEN NoResponse
                    ELSE HandleResponse(clients, cur, <<>>)
  /\ lpc' = AfterHandle(clients, cur)
  /\ cur' = IF cur.Type = eTypeNewClient THEN NoEvent ELSE cur
  /\ wantDone' = IF cur.Type \in {eTypeNewClient, eTypeRemoveClient}
                   THEN cur.replay ELSE wantDone
  /\ ins' = [c \in Callers |->
               IF cur.Type = eTypeNewClient /\ ins[c].ptr = cur.Client.ptr
                 THEN [ptr |-> ins[c].ptr, done |-> TRUE,
                       before |-> Cardinality(DOMAIN clients),
                       after |-> Cardinality(DOMAIN clients')]
                 ELSE ins[c]]
  /\ seen' = [c \in Callers |->
                IF pc[c] = "NewLen"
                  THEN seen[c] \cup {Cardinality(DOMAIN clients')} ELSE seen[c]]
  /\ lastDone' = IF lpc' = "recv" THEN cur.seq ELSE lastDone
  /\ prev' = [c \in Callers |->
                IF prev[c].clean /\ clients' # clients
                  THEN [prev[c] EXCEPT !.clean = FALSE] ELSE prev[c]]
  /\ UNCHANGED <<events, pc, arg, mine, ret, ncalls, nextPtr, want, served, act,
                 nsent, msgs, rng>>

\* ev.Response <- r, received by the caller's <-rch, where the caller waits.
\* Clients and Client return what they received; Remove goes on to read the
\* length, Range to its loop
ListenerSend(c) ==
  /\ lpc = "send"
  /\ cur.Response = c
  /\ pc[c] \in {"RemoveWait", "ClientsWait", "ClientWait", "RangeWait"}
  /\ lpc' = "recv"
  /\ cur' = NoEvent
  /\ resp' = NoResponse
  /\ lastDone' = cur.seq
  /\ IF pc[c] = "RemoveWait"
       THEN /\ pc' = [pc EXCEPT ![c] = "RemoveLen"]
            /\ UNCHANGED <<ret, arg, rng>>
       ELSE IF pc[c] = "RangeWait"
       THEN /\ pc' = [pc EXCEPT ![c] = "RangeLoop"]
            /\ rng' = [rng EXCEPT ![c] = [snap |-> resp.Clients, i |-> 1, visited |-> <<>>]]
            /\ UNCHANGED <<ret, arg>>
       ELSE /\ pc' = [pc EXCEPT ![c] = "idle"]
            /\ arg' = [arg EXCEPT ![c] = ""]
            /\ ret' = [ret EXCEPT ![c] =
                 IF pc[c] = "ClientsWait"
                   THEN Returned("Clients", "", 0, resp.Clients, NilClient, cur.replay)
                   ELSE Returned("Client", arg[c], 0, <<>>, resp.Client, cur.replay)]
            /\ UNCHANGED rng
  /\ UNCHANGED <<clients, events, mine, ncalls, nextPtr, cancelled,
                 want, wantDone, served, ins, seen, act, nsent, prev, msgs>>

\* ---- the callers ----

\* the position of a caller that has sent its request and has not yet reached
\* the receive on its response channel, and its position once it waits there
SentPcs == {"RemoveSent", "ClientsSent", "ClientSent", "RangeSent"}

WaitPc(p) ==
  IF p = "RemoveSent" THEN "RemoveWait"
  ELSE IF p = "ClientsSent" THEN "ClientsWait"
  ELSE IF p = "RangeSent" THEN "RangeWait"
  ELSE "ClientWait"

\* <-rch: the caller reaches the receive and waits for the listener's send
Await(c) ==
  /\ pc[c] \in SentPcs
  /\ pc' = [pc EXCEPT ![c] = WaitPc(pc[c])]
  /\ UNCHANGED <<clients, events, lpc, cur, resp, arg, mine, ret, ncalls, nextPtr,
                 cancelled, want, wantDone, served, ins, seen, act,
                 nsent, lastDone, prev, msgs, rng>>

\* history kept for caller c when it starts a call that sends a request:
\* a New or a Remove ends everybody's quiescence, any other request that of
\* the other callers
Started(c, mutation) ==
  [d \in Callers |-> IF mutation \/ d # c THEN NoAct ELSE act[d]]

\* New: build cli, cs.events <- event{Type: eTypeNewClient, Client: cli}
NewSend(c, id) ==
  /\ pc[c] = "idle"
  /\ CanSend(events)
  /\ LET cli == Client(id, nextPtr) IN
       /\ events' = ChanSend(events,
                      event(eTypeNewClient, "", cli, NoChan, ReplayInsert(want, id), nsent + 1))
       /\ mine' = [mine EXCEPT ![c] = cli]
       /\ ins' = [ins EXCEPT ![c] = [NoIns EXCEPT !.ptr = cli.ptr]]
  /\ nextPtr' = nextPtr + 1
  /\ pc' = [pc EXCEPT ![c] = "NewLen"]
  /\ arg' = [arg EXCEPT ![c] = id]
  /\ ret' = [ret EXCEPT ![c] = NoRet]
  /\ ncalls' = ncalls + 1
  /\ want' = ReplayInsert(want, id)
  /\ seen' = [seen EXCEPT ![c] = {Cardinality(DOMAIN clients)}]
  /\ served' = [served EXCEPT ![c] = EmptyMap]
  /\ act' = Started(c, TRUE)
  /\ nsent' = nsent + 1
  /\ prev' = [prev EXCEPT ![c] = NoPrev]
  /\ msgs' = [p \in DOMAIN msgs \cup {nextPtr} |-> IF p = nextPtr THEN 0 ELSE msgs[p]]
  /\ UNCHANGED <<clients, lpc, cur, resp, cancelled, wantDone,
                 lastDone, rng>>

\* New: return cli, len(cs.clients)
NewLen(c) ==
  /\ pc[c] = "NewLen"
  /\ ret' = [ret EXCEPT ![c] =
       Returned("New", arg[c], MapLen(clients), <<>>, mine[c], {})]
  /\ pc' = [pc EXCEPT ![c] = "idle"]
  /\ arg' = [arg EXCEPT ![c] = ""]
  /\ mine' = [mine EXCEPT ![c] = NilClient]
  /\ UNCHANGED <<clients, events, lpc, cur, resp, ncalls, nextPtr,
                 cancelled, want, wantDone, served, ins, seen, act,
                 nsent, lastDone, prev, msgs, rng>>

\* Remove: cs.events <- event{Type: eTypeRemoveClient, ClientID: clientID, Response: rch}
RemoveSend(c, id) ==
  /\ pc[c] = "idle"
  /\ CanSend(events)
  /\ events' = ChanSend(events,
                 event(eTypeRemoveClient, id, NilClient, c, ReplayRemove(want, id), nsent + 1))
  /\ pc' = [pc EXCEPT ![c] = "RemoveSent"]
  /\ arg' = [arg EXCEPT ![c] = id]
  /\ ret' = [ret EXCEPT ![c] = NoRet]
  /\ ncalls' = ncalls + 1
  /\ want' = ReplayRemove(want, id)
  /\ ins' = [ins EXCEPT ![c] = NoIns]
  /\ seen' = [seen EXCEPT ![c] = {}]
  /\ served' = [served EXCEPT ![c] = EmptyMap]
  /\ act' = Started(c, TRUE)
  /\ nsent' = nsent + 1
  /\ prev' = [prev EXCEPT ![c] = IF prev[c].id = id /\ ~prev[c].twice THEN prev[c] ELSE NoPrev]
  /\ UNCHANGED <<clients, lpc, cur, resp, mine, nextPtr, cancelled, wantDone,
                 lastDone, msgs, rng>>

RemoveCountStale(c) == Cardinality(DOMAIN served[c])

\* Remove: the count it returns, len(cs.clients) read after the acknowledgement
RemoveCount(c) == MapLen(clients)

\* Remove: return len(cs.clients)
RemoveLen(c) ==
  /\ pc[c] = "RemoveLen"
  /\ ret' = [ret EXCEPT ![c] =
       Returned("Remove", arg[c], RemoveCount(c), <<>>, NilClient, {})]
  /\ pc' = [pc EXCEPT ![c] = "idle"]
  /\ arg' = [arg EXCEPT ![c] = ""]
  /\ prev' = [prev EXCEPT ![c] =
       IF prev[c].id = arg[c]
         THEN [prev[c] EXCEPT !.twice = TRUE]
         ELSE [id |-> arg[c], n |-> RemoveCount(c), clean |-> TRUE, twice |-> FALSE]]
  /\ UNCHANGED <<clients, events, lpc, cur, resp, mine, ncalls, nextPtr,
                 cancelled, want, wantDone, served, ins, seen, act,
                 nsent, lastDone, msgs, rng>>

\* Active: return len(cs.clients)
Active(c) ==
  /\ pc[c] = "idle"
  /\ ret' = [ret EXCEPT ![c] =
       Returned("Active", "", MapLen(clients), <<>>, NilClient, {})]
  /\ ncalls' = ncalls + 1
  /\ act' = [act EXCEPT ![c] =
       IF Quiescent THEN [n |-> MapLen(clients), quiet |-> TRUE] ELSE NoAct]
  /\ ins' = [ins EXCEPT ![c] = NoIns]
  /\ seen' = [seen EXCEPT ![c] = {}]
  /\ served' = [served EXCEPT ![c] = EmptyMap]
  /\ prev' = [prev EXCEPT ![c] = NoPrev]
  /\ UNCHANGED <<clients, events, lpc, cur, resp, pc, arg, mine, nextPtr,
                 cancelled, want, wantDone,
                 nsent, lastDone, msgs, rng>>

\* Clients: cs.events <- event{Type: eTypeClientList, Response: rch}
ClientsSend(c) ==
  /\ pc[c] = "idle"
  /\ CanSend(events)
  /\ events' = ChanSend(events, event(eTypeClientList, "", NilClient, c, want, nsent + 1))
  /\ pc' = [pc EXCEPT ![c] = "ClientsSent"]
  /\ ret' = [ret EXCEPT ![c] = NoRet]
  /\ ncalls' = ncalls + 1
  /\ ins' = [ins EXCEPT ![c] = NoIns]
  /\ seen' = [seen EXCEPT ![c] = {}]
  /\ served' = [served EXCEPT ![c] = EmptyMap]
  /\ act' = Started(c, FALSE)
  /\ nsent' = nsent + 1
  /\ prev' = [prev EXCEPT ![c] = NoPrev]
  /\ UNCHANGED <<clients, lpc, cur, resp, arg, mine, nextPtr, cancelled,
                 want, wantDone,
                 lastDone, msgs, rng>>

\* Client: cs.events <- event{Type: eTypeClientList, Response: rch}
ClientSend(c, id) ==
  /\ pc[c] = "idle"
  /\ CanSend(events)
  /\ events' = ChanSend(events, event(eTypeClientList, "", NilClient, c, want, nsent + 1))
  /\ pc' = [pc EXCEPT ![c] = "ClientSent"]
  /\ arg' = [arg EXCEPT ![c] = id]
  /\ ret' = [ret EXCEPT ![c] = NoRet]
  /\ ncalls' = ncalls + 1
  /\ ins' = [ins EXCEPT ![c] = NoIns]
  /\ seen' = [seen EXCEPT ![c] = {}]
  /\ served' = [served EXCEPT ![c] = EmptyMap]
  /\ act' = Started(c, FALSE)
  /\ nsent' = nsent + 1
  /\ prev' = [prev EXCEPT ![c] = NoPrev]
  /\ UNCHANGED <<clients, lpc, cur, resp, mine, nextPtr, cancelled,
                 want, wantDone,
                 lastDone, msgs, rng>>

\* Range: cs.events <- event{Type: eTypeClientList, Response: rch}
RangeSend(c) ==
  /\ pc[c] = "idle"
  /\ CanSend(events)
  /\ events' = ChanSend(events, event(eTypeClientList, "", NilClient, c, want, nsent + 1))
  /\ pc' = [pc EXCEPT ![c] = "RangeSent"]
  /\ ret' = [ret EXCEPT ![c] = NoRet]
  /\ ncalls' = ncalls + 1
  /\ nsent' = nsent + 1
  /\ prev' = [prev EXCEPT ![c] = NoPrev]
  /\ ins' = [ins EXCEPT ![c] = NoIns]
  /\ seen' = [seen EXCEPT ![c] = {}]
  /\ served' = [served EXCEPT ![c] = EmptyMap]
  /\ act' = Started(c, FALSE)
  /\ UNCHANGED <<clients, lpc, cur, resp, arg, mine, nextPtr, cancelled,
                 want, wantDone, lastDone, msgs, rng>>

RangeElemFirst(snap, i) == snap[1]

\* response.Clients[i], the argument of the i-th call of f
RangeElem(snap, i) == snap[i]

\* Range: for i := range response.Clients { f(response.Clients[i]) }; one
\* call of f, or the end of the loop and the return
RangeLoop(c) ==
  /\ pc[c] = "RangeLoop"
  /\ IF rng[c].i <= Len(rng[c].snap)
       THEN /\ rng' = [rng EXCEPT ![c] =
                 [snap |-> rng[c].snap, i |-> rng[c].i + 1,
                  visited |-> Append(rng[c].visited, RangeElem(rng[c].snap, rng[c].i))]]
            /\ UNCHANGED <<pc, ret>>
       ELSE /\ rng' = [rng EXCEPT ![c] = NoRng]
            /\ pc' = [pc EXCEPT ![c] = "idle"]
            /\ ret' = [ret EXCEPT ![c] =
                 Returned("Range", "", 0, rng[c].visited, NilClient, {})]
  /\ UNCHANGED <<clients, events, lpc, cur, resp, arg, mine, ncalls, nextPtr,
                 cancelled, want, wantDone, served, ins, seen, act, nsent, lastDone,
                 prev, msgs>>

\* ---- producers of messages ----
MsgBuffer == buffer

CanPushUnbuffered(pending) == FALSE

\* mchan := make(chan *Message, cs.MsgBuffer): a send on a record's Msg does
\* not block while fewer than MsgBuffer messages are pending
CanPush(pending) == pending < MsgBuffer

\* cli.Msg <- m, by any producer holding the record
Push(p) ==
  /\ p \in DOMAIN msgs
  /\ CanPush(msgs[p])
  /\ msgs' = [msgs EXCEPT ![p] = @ + 1]
  /\ UNCHANGED <<clients, events, lpc, cur, resp, pc, arg, mine, ret, ncalls,
                 nextPtr, cancelled, want, wantDone, served, ins, seen, act, nsent,
                 lastDone, prev, rng>>

\* ---- two concurrent callers, any calls ----
GenCallers == {1, 2}

Next ==
  \/ ListenerRecv
  \/ ListenerHandle
  \/ \E c \in Callers : ListenerSend(c)
  \/ \E c \in Callers : Await(c)
  \/ \E c \in Callers : NewLen(c)
  \/ \E c \in Callers : RemoveLen(c)
  \/ \E c \in Callers : RangeLoop(c)
  \/ \E c \in GenCallers, id \in IDs : ncalls < MaxCalls /\ NewSend(c, id)
  \/ \E c \in GenCallers, id \in IDs : ncalls < MaxCalls /\ RemoveSend(c, id)
  \/ \E c \in GenCallers : ncalls < MaxCalls /\ Active(c)
  \/ \E c \in GenCallers : ncalls < MaxCalls /\ ClientsSend(c)
  \/ \E c \in GenCallers, id \in IDs : ncalls < MaxCalls /\ ClientSend(c, id)
  \/ \E c \in GenCallers : ncalls < MaxCalls /\ RangeSend(c)

Spec == Init /\ [][Next]_vars

\* ---- N callers, each New(its own id) then Remove(the same id); once all
\* ---- have returned, caller 1 reads Active() and then Clients()
PairIDs == <<"a", "b", "c", "d", "e", "f">>

OthersReturned == \A c \in Callers \ {1} : pc[c] = "idle" /\ ret[c].op = "Remove"

PairNew(c) == ret[c].op = "none" /\ NewSend(c, PairIDs[c])

PairRemove(c) == ret[c].op = "New" /\ RemoveSend(c, PairIDs[c])

ObserveActive == OthersReturned /\ ret[1].op = "Remove" /\ Active(1)

ObserveClients == OthersReturned /\ ret[1].op = "Active" /\ ClientsSend(1)

NextPairs ==
  \/ ListenerRecv
  \/ ListenerHandle
  \/ \E c \in Callers : ListenerSend(c)
  \/ \E c \in Callers : Await(c)
  \/ \E c \in Callers : NewLen(c)
  \/ \E c \in Callers : RemoveLen(c)
  \/ \E c \in Callers : PairNew(c)
  \/ \E c \in Callers : PairRemove(c)
  \/ ObserveActive
  \/ ObserveClients

SpecPairs == Init /\ [][NextPairs]_vars

TypeOK ==
  /\ lpc \in {"recv", "handle", "send"}
  /\ Len(events) <= buffer
  /\ \A c \in Callers : pc[c] \in {"idle", "NewLen", "RemoveWait", "RemoveLen",
                                   "ClientsWait", "ClientWait", "RangeWait",
                                   "RangeLoop"} \cup SentPcs

\* ---- helpers of the properties ----
Records(m) == {m[k] : k \in DOMAIN m}

Elems(list) == {list[i] : i \in 1..Len(list)}

IdsOf(list) == {list[i].ID : i \in 1..Len(list)}

AllReturned ==
  /\ events = <<>>
  /\ lpc = "recv"
  /\ \A c \in Callers : pc[c] = "idle"

\* C1: the keys of the live map are what the replay, in arrival order, of the
\* insert/remove requests the listener has fully processed leaves; a list
\* reply holds the ids the replay of the requests that entered the queue
\* before the list request leaves; and once all calls have returned and the
\* queue is empty, every request has been processed, so that the map, and a
\* Clients() call made then, hold the replay of all of them.
C1_ReplayInArrivalOrder ==
  /\ DOMAIN clients = wantDone
  /\ AllReturned => wantDone = want
  /\ \A c \in Callers :
       ret[c].op = "Clients" => IdsOf(ret[c].Clients) = ret[c].replay

C1_Witness ==
  /\ AllReturned
  /\ ncalls = MaxCalls
  /\ \E c \in Callers :
       /\ ret[c].op = "Clients"
       /\ Len(ret[c].Clients) = 1
       /\ ret[c].replay = want
       /\ ins[c].ptr = 0
  /\ \E c \in Callers : ret[c].op = "Remove"

\* C2: Client(id) returns the record of id whenever id is a key of the live
\* map at the moment the listener serves the lookup.
C2_ClientReturnsActive ==
  \A c \in Callers :
    (ret[c].op = "Client" /\ ret[c].id \in DOMAIN served[c]) =>
      /\ ret[c].Client # NilClient
      /\ ret[c].Client.ID = ret[c].id

\* C3: after Remove(id) has returned, the listener having found id in the
\* live map, the Ctx of the removed record is cancelled.
C3_RemoveCancelsCtx ==
  \A c \in Callers :
    (ret[c].op = "Remove" /\ ret[c].id \in DOMAIN served[c]) =>
      served[c][ret[c].id].ptr \in cancelled

\* C4: the count New returned is the size of the live map right after the
\* listener applied this call's insert.
C4_NewCountsAfterInsert ==
  \A c \in Callers :
    (ret[c].op = "New" /\ ins[c].done) => ret[c].n = ins[c].after

\* C5 (as claimed): the count New returned is the size of the live map before
\* this call's insert was applied.
C5_NewCountsBeforeInsert ==
  \A c \in Callers :
    (ret[c].op = "New" /\ ins[c].done) => ret[c].n = ins[c].before

\* C5 (amended): the count New returned is a size the live map had at some
\* instant between the submission of this call's insert request and the
\* return of New.
C5_NewCountsSomeSizeSinceSend ==
  \A c \in Callers : ret[c].op = "New" => ret[c].n \in seen[c]

C5_Witness ==
  \E c \in Callers :
    /\ ret[c].op = "New"
    /\ ins[c].done
    /\ ret[c].n = ins[c].after
    /\ ret[c].n # ins[c].before

\* C6: when the listener acknowledges a remove request, id is not a key of
\* the live map and the map is the replay of every request up to and
\* including this one; a Remove caller past its receive has no request left
\* in the queue or in the listener's hands.
C6_RemoveAckAfterProcessing ==
  /\ (lpc = "send" /\ cur.Type = eTypeRemoveClient) =>
       /\ cur.ClientID \notin DOMAIN clients
       /\ DOMAIN clients = cur.replay
  /\ \A c \in Callers :
       pc[c] = "RemoveLen" =>
         /\ cur.Response # c
         /\ \A i \in 1..Len(events) : events[i].Response # c

C6_Witness ==
  /\ lpc = "send"
  /\ cur.Type = eTypeRemoveClient
  /\ cur.ClientID \in DOMAIN served[cur.Response]
  /\ clients # EmptyMap

\* C7: no caller reads the length of the live map (Active, New, Remove) in a
\* state where the listener holds a request whose handling writes the map.
C7_NoDataRace ==
  [][(\E c \in Callers : NewLen(c) \/ RemoveLen(c) \/ Active(c)) => ~ListenerWrites]_vars

\* C8: a list reply, and what Clients() returns, holds exactly the records of
\* the live map at the instant the listener processes the request: one
\* element per key, none missing, none duplicated, none foreign.
C8_ClientsIsSnapshot ==
  /\ (lpc = "send" /\ cur.Type = eTypeClientList) =>
       /\ Elems(resp.Clients) = Records(clients)
       /\ Len(resp.Clients) = Cardinality(DOMAIN clients)
  /\ \A c \in Callers :
       ret[c].op = "Clients" =>
         /\ Elems(ret[c].Clients) = Records(served[c])
         /\ Len(ret[c].Clients) = Cardinality(DOMAIN served[c])

C8_Witness ==
  \E c \in Callers : ret[c].op = "Clients" /\ Len(ret[c].Clients) = 2

\* C9: once every caller has returned from its New and its Remove, the live
\* map is empty, Active() returns 0 and Clients() returns no record.
C9_PairsLeaveNothing ==
  (OthersReturned /\ pc[1] \in {"idle", "ClientsSent", "ClientsWait"}
     /\ (pc[1] = "idle" => ret[1].op \in {"Remove", "Active", "Clients"})) =>
    /\ clients = EmptyMap
    /\ (events = <<>> \/ pc[1] \in {"ClientsSent", "ClientsWait"})
    /\ ret[1].op = "Active" => ret[1].n = 0
    /\ ret[1].op = "Clients" => ret[1].Clients = <<>>

C9_Witness ==
  /\ OthersReturned
  /\ pc[1] = "idle"
  /\ ret[1].op = "Clients"
  /\ nextPtr = NumCallers + 1

\* C10: Active() is never negative, and a Clients() call that follows an
\* Active() call, the registry quiescent (no New or Remove in progress, the
\* queue empty) from the one to the other, returns as many records as
\* Active() returned.
C10_QuiescentActiveIsLenClients ==
  \A c \in Callers :
    /\ ret[c].op = "Active" => ret[c].n >= 0
    /\ (ret[c].op = "Clients" /\ act[c].quiet) => Len(ret[c].Clients) = act[c].n

\* C11 (as claimed): when a caller calls Remove(id) twice in a row, the second
\* call returns the count the first call returned.
C11_RemoveTwiceSameCount ==
  \A c \in Callers :
    (pc[c] = "idle" /\ ret[c].op = "Remove" /\ prev[c].twice) => ret[c].n = prev[c].n

\* C11 (amended): when a caller calls Remove(id) twice in a row, a caller
\* past its acknowledgement can always read the count and return, and if the
\* live map is not changed between the return of the first call and the
\* return of the second (neither by a request of another caller nor by the
\* second Remove itself, which deletes id when another caller's insert of id
\* was stored before the first call read its count), the second call returns
\* the count the first returned.
C11_RemoveTwiceSameCountWhenUndisturbed ==
  \A c \in Callers :
    /\ pc[c] = "RemoveLen" => ENABLED RemoveLen(c)
    /\ (pc[c] = "idle" /\ ret[c].op = "Remove" /\ prev[c].twice /\ prev[c].clean) =>
         ret[c].n = prev[c].n

C11_Witness ==
  \E c \in Callers :
    /\ pc[c] = "idle"
    /\ ret[c].op = "Remove"
    /\ prev[c].twice
    /\ prev[c].clean
    /\ ret[c].n = 1
    /\ prev[c].n = 1
    /\ ret[c].id \notin DOMAIN clients

\* C12: the listener's handling of a remove request for an id that is not a
\* key of the live map leaves the map (and the contexts) as they are and goes
\* on to send a nil acknowledgement; that one send takes the waiting Remove
\* caller on to its return and ends the request.
C12_RemoveAbsentIsAcknowledgedNoOp ==
  [][/\ (lpc = "handle" /\ lpc' # "handle" /\ cur.Type = eTypeRemoveClient
          /\ cur.ClientID \notin DOMAIN clients) =>
         /\ clients' = clients
         /\ cancelled' = cancelled
         /\ lpc' = "send"
         /\ resp'.isNil
         /\ cur' = cur
     /\ (lpc = "send" /\ lpc' # "send" /\ cur.Type = eTypeRemoveClient) =>
         /\ pc[cur.Response] = "RemoveWait"
         /\ pc'[cur.Response] = "RemoveLen"
         /\ lastDone' = cur.seq
         /\ clients' = clients]_vars

C12_Witness ==
  \E c \in Callers :
    /\ ret[c].op = "Remove"
    /\ ret[c].id \notin DOMAIN served[c]
    /\ served[c] # EmptyMap
    /\ clients = served[c]
    /\ ret[c].n = Cardinality(DOMAIN served[c])

\* C13: the listener's handling of an insert request whose id is already a key
\* of the live map replaces the entry by the new record, keeps the size,
\* sends nothing (no error), and leaves the previous record out of the map,
\* hence out of what Clients() returns; every record of the map sits under
\* its own id, so no two records of the map have the same id.
C13_DuplicateInsertOverwrites ==
  [][/\ \A k \in DOMAIN clients : clients[k].ID = k
     /\ (lpc = "handle" /\ lpc' # "handle" /\ cur.Type = eTypeNewClient
          /\ cur.Client.ID \in DOMAIN clients) =>
         /\ clients'[cur.Client.ID] = cur.Client
         /\ DOMAIN clients' = DOMAIN clients
         /\ clients[cur.Client.ID] \notin {clients'[k] : k \in DOMAIN clients'}
         /\ \A k \in DOMAIN clients' \ {cur.Client.ID} : clients'[k] = clients[k]
         /\ lpc' = "recv"]_vars

C13_Witness ==
  \E c \in Callers :
    /\ ret[c].op = "New"
    /\ ins[c].done
    /\ ins[c].before = ins[c].after
    /\ ret[c].id \in DOMAIN clients
    /\ clients[ret[c].id] = ret[c].Client
    /\ ret[c].Client.ptr > 1

\* ---- registry calls with producers pushing into the records' Msg ----
PushCalls == MaxCalls - 1

\* the record the producers hold: the first one created
PushTargets == {1}

NextPush ==
  \/ ListenerRecv
  \/ ListenerHandle
  \/ \E c \in Callers : ListenerSend(c)
  \/ \E c \in Callers : Await(c)
  \/ \E c \in Callers : NewLen(c)
  \/ \E c \in Callers : RemoveLen(c)
  \/ \E c \in Callers : RangeLoop(c)
  \/ \E c \in GenCallers, id \in IDs : ncalls < PushCalls /\ NewSend(c, id)
  \/ \E c \in GenCallers, id \in IDs : ncalls < PushCalls /\ RemoveSend(c, id)
  \/ \E c \in GenCallers : ncalls < PushCalls /\ Active(c)
  \/ \E c \in GenCallers : ncalls < PushCalls /\ ClientsSend(c)
  \/ \E c \in GenCallers, id \in IDs : ncalls < PushCalls /\ ClientSend(c, id)
  \/ \E c \in GenCallers : ncalls < PushCalls /\ RangeSend(c)
  \/ \E p \in DOMAIN msgs \cap PushTargets : Push(p)

SpecPush == Init /\ [][NextPush]_vars

\* the step the listener is at can be taken
ListenerCanStep ==
  /\ (lpc = "recv" /\ events # <<>>) => ENABLED ListenerRecv
  /\ lpc = "handle" => ENABLED ListenerHandle
  /\ (lpc = "send" /\ pc[cur.Response] \notin SentPcs) =>
       ENABLED ListenerSend(cur.Response)

\* the step a caller is at can be taken, and an idle caller can start any
\* call while the request queue has room
CallersCanStep ==
  \A c \in Callers :
    /\ pc[c] \in SentPcs => ENABLED Await(c)
    /\ pc[c] = "NewLen" => ENABLED NewLen(c)
    /\ pc[c] = "RemoveLen" => ENABLED RemoveLen(c)
    /\ pc[c] = "RangeLoop" => ENABLED RangeLoop(c)
    /\ (pc[c] = "idle" /\ CanSend(events)) =>
         /\ ENABLED Active(c)
         /\ ENABLED ClientsSend(c)
         /\ ENABLED RangeSend(c)
         /\ \A id \in IDs : /\ ENABLED NewSend(c, id)
                            /\ ENABLED RemoveSend(c, id)
                            /\ ENABLED ClientSend(c, id)

\* C14: a record's Msg never holds more than MsgBuffer messages; while fewer
\* are pending a push can be taken (it does not block), when MsgBuffer are
\* pending it cannot (the pusher blocks); and while a record's Msg is full,
\* the listener can take the step it is at and so can every caller.
C14_PushNeverBlocksListener ==
  /\ \A p \in DOMAIN msgs :
       /\ msgs[p] <= MsgBuffer
       /\ msgs[p] < MsgBuffer => ENABLED Push(p)
       /\ msgs[p] = MsgBuffer => ~ ENABLED Push(p)
  /\ (\E p \in DOMAIN msgs : msgs[p] = MsgBuffer) =>
       /\ ListenerCanStep
       /\ CallersCanStep

C14_Witness ==
  \E p \in DOMAIN msgs :
    /\ msgs[p] = MsgBuffer
    /\ lpc = "send"
    /\ cur.Type = eTypeRemoveClient
    /\ pc[cur.Response] = "RemoveWait"
    /\ clients = EmptyMap

\* C15: while Range runs its loop, the records f has been called with are the
\* first i-1 entries of the reply, in order, once each; the reply holds each
\* record of the map the listener copied for this call once; the listener is
\* past this call's reply, so it is never waiting for this caller and can
\* take the step it is at; and when Range has returned, f has been called
\* with each entry of the reply exactly once.
C15_RangeVisitsSnapshotOnce ==
  \A c \in Callers :
    /\ pc[c] = "RangeLoop" =>
         /\ rng[c].i \in 1..(Len(rng[c].snap) + 1)
         /\ rng[c].visited = SubSeq(rng[c].snap, 1, rng[c].i - 1)
         /\ Elems(rng[c].snap) = Records(served[c])
         /\ Len(rng[c].snap) = Cardinality(DOMAIN served[c])
         /\ cur.Response # c
         /\ ListenerCanStep
    /\ (pc[c] = "idle" /\ ret[c].op = "Range") =>
         /\ Elems(ret[c].Clients) = Records(served[c])
         /\ Len(ret[c].Clients) = Cardinality(DOMAIN served[c])

C15_Witness ==
  \E c \in Callers :
    /\ pc[c] = "RangeLoop"
    /\ Len(rng[c].visited) = 1
    /\ lpc = "handle"
    /\ cur.Type = eTypeRemoveClient
    /\ cur.Response # c
    /\ cur.ClientID = rng[c].visited[1].ID

\* the requests the listener has taken from the queue and not finished: the
\* one it is processing, if any
InProcess == IF lpc = "recv" THEN 0 ELSE 1

\* C16: requests are numbered 1, 2, ... in the order they entered the queue.
\* The listener has finished (effect and reply) exactly the requests
\* 1..lastDone; the request it is processing is number lastDone+1, and the
\* queue holds the numbers after it, in order, up to the last one sent; a
\* caller that has not yet got its reply has its request in the queue or in
\* process, so no later request was started before.
C16_ProcessedInQueueOrder ==
  /\ lastDone + InProcess + Len(events) = nsent
  /\ lpc # "recv" => cur.seq = lastDone + 1
  /\ \A i \in 1..Len(events) : events[i].seq = lastDone + InProcess + i
  /\ \A c \in Callers :
       (pc[c] \in SentPcs \/ pc[c] \in {WaitPc(p) : p \in SentPcs}) =>
         \/ lpc # "recv" /\ cur.Response = c
         \/ \E i \in 1..Len(events) : events[i].Response = c

C16_Witness ==
  /\ lpc = "handle"
  /\ lastDone = 0
  /\ Len(events) = 2
  /\ events[1].Response # NoChan
  /\ events[2].Response # NoChan
  /\ events[1].Response # events[2].Response

\* ---- a burst of New calls that fills the request queue ----
\* caller 1 calls New again and again, with ids taken in turn; caller 2 makes
\* one call of any kind meanwhile
MaxBurst == 11

Burster == 1

Others == {2}

BurstId == IF nextPtr % 2 = 1 THEN "a" ELSE "b"

\* ncalls counts all calls started and nextPtr - 1 those of New, which only
\* the burster makes here: the other caller makes one call during the burst
OthersMayCall == ncalls = nextPtr - 1

NextFull ==
  \/ ListenerRecv
  \/ ListenerHandle
  \/ \E c \in Callers : ListenerSend(c)
  \/ \E c \in Callers : Await(c)
  \/ \E c \in Callers : NewLen(c)
  \/ \E c \in Callers : RemoveLen(c)
  \/ \E c \in Callers : RangeLoop(c)
  \/ nextPtr <= MaxBurst /\ NewSend(Burster, BurstId)
  \/ \E c \in Others, id \in IDs : OthersMayCall /\ RemoveSend(c, id)
  \/ \E c \in Others : OthersMayCall /\ Active(c)
  \/ \E c \in Others : OthersMayCall /\ ClientsSend(c)
  \/ \E c \in Others, id \in IDs : OthersMayCall /\ ClientSend(c, id)
  \/ \E c \in Others : OthersMayCall /\ RangeSend(c)

SpecFull == Init /\ [][NextFull]_vars

\* C17: an insert request carries no response channel, in the queue and in
\* process; a caller of New that has sent its request can return whatever the
\* listener does; the queue never holds more than its capacity; and when all
\* calls have returned and all requests are processed, the keys of the map
\* are the replay of the requests in the order they were sent, whatever the
\* times at which the callers had to wait for room in the queue.
C17_NewDoesNotWait ==
  /\ \A i \in 1..Len(events) :
       events[i].Type = eTypeNewClient => events[i].Response = NoChan
  /\ (lpc # "recv" /\ cur.Type = eTypeNewClient) => cur.Response = NoChan
  /\ \A c \in Callers : pc[c] = "NewLen" => ENABLED NewLen(c)
  /\ Len(events) <= buffer
  /\ AllReturned => DOMAIN clients = want

C17_Witness ==
  /\ Len(events) = buffer
  /\ ~ CanSend(events)
  /\ pc[Burster] = "idle"
  /\ ret[Burster].op = "New"
  /\ ~ ins[Burster].done
  /\ ret[Burster].id \notin DOMAIN clients
  /\ ret[Burster].Client.ptr = events[Len(events)].Client.ptr

\* the listener goroutine can take a step
ListenerEnabled ==
  ENABLED (ListenerRecv \/ ListenerHandle \/ \E c \in Callers : ListenerSend(c))

\* C18 (as claimed): whenever the listener is blocked, it is blocked on the
\* receive from the request queue.
C18_ListenerBlocksOnlyOnQueue ==
  ~ ListenerEnabled => lpc = "recv"

\* C18 (amended): whenever the listener is blocked, it is blocked either on
\* the receive from the empty request queue, or on the send of the reply to
\* the caller of the request in process, who has sent that request, has not
\* yet reached the receive on its response channel and can reach it as its
\* next step; the listener is never blocked in the body of a case, where the
\* lifetime signal is touched.
C18_ListenerBlocksOnQueueOrReplyHandoff ==
  /\ ~ ListenerEnabled =>
       \/ lpc = "recv" /\ events = <<>>
       \/ /\ lpc = "send"
          /\ cur.Response \in Callers
          /\ pc[cur.Response] \in SentPcs
          /\ ENABLED Await(cur.Response)
  /\ lpc = "handle" => ENABLED ListenerHandle

C18_Witness ==
  /\ ~ ListenerEnabled
  /\ lpc = "send"
  /\ cur.Type = eTypeClientList
  /\ pc[cur.Response] = "RangeSent"
  /\ events # <<>>

\* C19: every step that changes the live map is the listener running the
\* body of the case of an insert or of a remove request; the steps of the
\* callers (sending a request, receiving a reply, reading the length, the
\* Range loop, Active) and the listener's receive, its list and lookup cases
\* and its sends leave the map as it is.
C19_OnlyListenerInsertRemoveChangeMap ==
  [][clients' # clients =>
       /\ lpc = "handle"
       /\ lpc' # "handle"
       /\ cur.Type \in {eTypeNewClient, eTypeRemoveClient}
       /\ pc' = pc
       /\ events' = events]_vars

C19_Witness ==
  \E c \in Callers :
    /\ pc[c] = "RangeLoop"
    /\ rng[c].i = 2
    /\ Records(served[c]) # {}
    /\ clients = EmptyMap
    /\ wantDone = {}
    /\ lpc = "recv"

\* ---- fair scheduling of the listener and of the callers ----
\* every goroutine that can take its next step eventually takes it; starting
\* a call is up to the caller, so it is not under fairness
Fairness ==
  /\ WF_vars(ListenerRecv)
  /\ WF_vars(ListenerHandle)
  /\ \A c \in Callers :
       /\ WF_vars(ListenerSend(c))
       /\ WF_vars(Await(c))
       /\ WF_vars(NewLen(c))
       /\ WF_vars(RemoveLen(c))
       /\ WF_vars(RangeLoop(c))

SpecFullLive == SpecFull /\ Fairness

\* some goroutine inside a call, or the listener, can take a step
Progress ==
  ENABLED (\/ ListenerRecv
           \/ ListenerHandle
           \/ \E c \in Callers :
                ListenerSend(c) \/ Await(c) \/ NewLen(c) \/ RemoveLen(c) \/ RangeLoop(c))

\* the listener is at a reply only for the caller that sent the request in
\* process and has not received its reply yet
ReplyIsAwaited ==
  lpc = "send" =>
    /\ cur.Response \in Callers
    /\ pc[cur.Response] \in SentPcs \cup {WaitPc(p) : p \in SentPcs}
    /\ \A i \in 1..Len(events) : events[i].Response # cur.Response

\* C20: under fair scheduling, again and again every call that was started
\* has returned and every request has been processed (the queue is empty and
\* the listener waits for the next request): so every call in progress
\* returns, and a full request queue gets room again, so a caller waiting to
\* submit gets to submit; the listener replies only to the caller of the
\* request in process, who has no other request pending, and that reply ends
\* the request; and the only states in which nothing can move are those
\* where every call has returned and the queue is empty.
C20_EveryCallReturns ==
  /\ []<>AllReturned
  /\ [](ReplyIsAwaited /\ (~ Progress => AllReturned))

C20_Witness ==
  /\ Len(events) = buffer
  /\ nextPtr <= MaxBurst
  /\ pc[Burster] = "idle"
  /\ lpc = "send"
  /\ cur.Type = eTypeRemoveClient
  /\ pc[cur.Response] = "RemoveSent"
====
